---- MODULE Spec2Model ----
(***************************************************************************)
(* Connection lifecycle of Connect-Campus: the connection controller       *)
(* (sendConnectionRequest, acceptConnectionRequest,                        *)
(* rejectConnectionRequest, removeConnection, getConnectionStatus) over    *)
(* the three collections it reads and writes (User.connections,            *)
(* ConnectionRequest, Notification) and the acceptance email.              *)
(*                                                                         *)
(* Every handler is an async function: between two awaits it runs without  *)
(* interruption, and at each await other handlers may run.  One action of  *)
(* the model is one such uninterrupted piece: a storage call together with *)
(* the synchronous code that follows it up to the next storage call.       *)
(* Spec runs the calls one after another; SpecConc interleaves them.       *)
(***************************************************************************)
EXTENDS Integers, Sequences, FiniteSets, TLC

Accounts == {"a", "b", "c"}

\* The accounts that send requests to one another and hold connections; the
\* remaining account only ever acts on other accounts' requests.
Members == {"a", "b"}

Procs == {"p1", "p2"}

\* Bound on the number of ConnectionRequest documents ever created.
MaxRequests == 2

RequestIds == 1..MaxRequests

\* Bound on the number of Post documents ever created.
MaxPosts == 1

PostIds == 1..MaxPosts

\* Bound on the number of accounts created by signup.
MaxUsers == 1

\* password.length < 6
MinPasswordLength == 6

\* Bound on the number of comments of a post.
MaxComments == 1

\* Bound on the number of notifications created for comments and likes.
MaxNotifications == 1

VARIABLES
  connections,    \* User collection: account id -> its `connections` array (as a set)
  requests,       \* ConnectionRequest collection, in creation order; _id = index
  notifications,  \* Notification collection, in creation order
  emails,         \* emails handed to the mailer (the address they go to), in order
  headlines,      \* User collection: account id -> its `headline` field
  posts,          \* Post collection, in creation order; _id = index
  users,          \* User collection: the accounts created by signup, in order
  calls,          \* one in-flight (or last finished) HTTP call per server task
  pre             \* history: the collections as they were when the running call began

vars == <<connections, requests, notifications, emails, headlines, posts, users,
          calls, pre>>

db == <<connections, requests, notifications>>

----------------------------------------------------------------------------
\* Responses (status code and JSON body).

\* No user document.
NoUser == [id |-> "", headline |-> "", connections |-> {}]

NoResponse ==
  [code |-> 0, message |-> "", status |-> "", requestId |-> 0,
   list |-> <<>>, accounts |-> {}, user |-> NoUser]

Json(code, message) == [NoResponse EXCEPT !.code = code, !.message = message]

StatusJson(status, requestId) ==
  [NoResponse EXCEPT !.code = 200, !.status = status, !.requestId = requestId]

InternalError == Json(500, "Internal server error")

NoDoc == [sender |-> "", recipient |-> "", status |-> ""]

\* No post document.
NoPost ==
  [author |-> "", image |-> FALSE, comments |-> <<>>, likes |-> <<>>,
   deleted |-> FALSE]

\* An empty request body.
NoBody == [fields |-> {}, headline |-> "", connections |-> {}]

\* An empty signup body.
NoForm == [name |-> "", username |-> "", email |-> "", password |-> ""]

IdleCall ==
  [op |-> "none", actor |-> "", userId |-> "", requestId |-> 0,
   pc |-> "idle", request |-> NoDoc, res |-> NoResponse, error |-> "",
   postId |-> 0, post |-> NoPost, body |-> NoBody, form |-> NoForm]

NoPre ==
  [owner |-> "", connections |-> [u \in Accounts |-> {}],
   requests |-> <<>>, notifications |-> <<>>, emails |-> <<>>,
   headlines |-> [u \in Accounts |-> ""], posts |-> <<>>, before |-> <<>>,
   users |-> <<>>]

Finished(p) == calls[p].pc \in {"idle", "done"}

Quiescent == \A q \in Procs : Finished(q)

\* A new call enters a task: the route's auth step has put the actor in req.user.
\* The records of calls that have ended are dropped.
\* The handler then runs up to its first storage call (pc), or to an early response.
\* History: when a likePost call follows a successful likePost call of the same
\* actor on the same post, the posts as they were before the earlier call.
BeforeBoth(p, call) ==
  IF /\ call.op = "like" /\ calls[p].op = "like"
     /\ call.actor = calls[p].actor /\ call.postId = calls[p].postId
     /\ calls[p].res.code = 200 /\ pre.owner = p
    THEN pre.posts
    ELSE <<>>

Begin(p, call) ==
  /\ Finished(p)
  /\ calls' = [q \in Procs |->
       IF q = p THEN call
         ELSE IF Finished(q) THEN IdleCall ELSE calls[q]]
  /\ pre' = IF \A q \in Procs \ {p} : Finished(q)
              THEN [owner |-> p, connections |-> connections,
                    requests |-> requests, notifications |-> notifications,
                    emails |-> emails, headlines |-> headlines, posts |-> posts,
                    before |-> BeforeBoth(p, call), users |-> users]
              ELSE NoPre

Enter(p, op, actor, userId, requestId, pc, res) ==
  Begin(p, [IdleCall EXCEPT !.op = op, !.actor = actor, !.userId = userId,
                            !.requestId = requestId, !.pc = pc, !.res = res])

\* res.status(code).json(body) followed by the end of the handler.
Respond(p, r) ==
  calls' = [calls EXCEPT ![p].res = r, ![p].pc = "done"]

\* Mutant: the catch block logs the error and sends nothing.
CatchWithoutResponse(p, error) ==
  calls' = [calls EXCEPT ![p].pc = "done", ![p].error = error]

\* An exception reaches the handler's catch block, which logs it and answers 500.
Catch(p, error) ==
  calls' = [calls EXCEPT ![p].res = InternalError, ![p].pc = "done",
                         ![p].error = error]

Goto(p, pc) == calls' = [calls EXCEPT ![p].pc = pc]

----------------------------------------------------------------------------
\* sendConnectionRequest

\* The ids of the documents of `reqs` matching {sender: s, recipient: r, status: "pending"}.
PendingIn(reqs, s, r) ==
  {i \in 1..Len(reqs) :
     /\ reqs[i].sender = s
     /\ reqs[i].recipient = r
     /\ reqs[i].status = "pending"}

PendingFromTo(s, r) == PendingIn(requests, s, r)

\* ConnectionRequest.findOne({sender: senderId, recipient: userId, status: "pending"})
SendExistingRequest(senderId, userId) == PendingFromTo(senderId, userId)

InFlightSends == {q \in Procs : calls[q].op = "send" /\ ~Finished(q)}

\* Mutant: the ids are compared without toString(), so they never match.
SendToSelfNeverEqual(senderId, userId) == FALSE

\* senderId.toString() === userId
SendToSelf(senderId, userId) == senderId = userId

\* req.user.connections.includes(userId)
SendAlreadyConnected(senderId, userId) == userId \in connections[senderId]

\* Mutant: the pending request is looked for before the connections are checked.
sendConnectionRequestPendingFirst(p, senderId, userId) ==
  /\ IF SendToSelf(senderId, userId)
       THEN Enter(p, "send", senderId, userId, 0, "done",
                  Json(400, "You cannot send connection request to yourself"))
       ELSE IF SendExistingRequest(senderId, userId) # {}
         THEN Enter(p, "send", senderId, userId, 0, "send_findOne", NoResponse)
         ELSE IF SendAlreadyConnected(senderId, userId)
           THEN Enter(p, "send", senderId, userId, 0, "done",
                      Json(400, "You are already connected"))
           ELSE /\ Len(requests) + Cardinality(InFlightSends \ {p}) < MaxRequests
                /\ Enter(p, "send", senderId, userId, 0, "send_findOne", NoResponse)
  /\ UNCHANGED <<users, headlines, posts, connections, requests, notifications, emails>>

sendConnectionRequest(p, senderId, userId) ==
  /\ IF SendToSelf(senderId, userId)
       THEN Enter(p, "send", senderId, userId, 0, "done",
                  Json(400, "You cannot send connection request to yourself"))
       ELSE IF SendAlreadyConnected(senderId, userId)
         THEN Enter(p, "send", senderId, userId, 0, "done",
                    Json(400, "You are already connected"))
         ELSE /\ Len(requests) + Cardinality(InFlightSends \ {p}) < MaxRequests
              /\ Enter(p, "send", senderId, userId, 0, "send_findOne", NoResponse)
  /\ UNCHANGED <<users, headlines, posts, connections, requests, notifications, emails>>

send_findOne(p) ==
  LET c == calls[p] IN
  /\ c.pc = "send_findOne"
  /\ IF SendExistingRequest(c.actor, c.userId) # {}
       THEN Respond(p, Json(400, "A connection request already sent"))
       ELSE Goto(p, "send_save")
  /\ UNCHANGED <<users, headlines, posts, connections, requests, notifications, emails, pre>>

\* Mutant: sender and recipient are exchanged.
NewRequestSwapped(senderId, userId) ==
  [sender |-> userId, recipient |-> senderId, status |-> "pending"]

\* new ConnectionRequest({sender: senderId, recipient: userId}); status defaults
\* to "pending".
NewRequest(senderId, userId) ==
  [sender |-> senderId, recipient |-> userId, status |-> "pending"]

send_save(p) ==
  LET c == calls[p] IN
  /\ c.pc = "send_save"
  /\ requests' = Append(requests, NewRequest(c.actor, c.userId))
  /\ Respond(p, Json(201, "Connection request sent successfully"))
  /\ UNCHANGED <<users, headlines, posts, connections, notifications, emails, pre>>

----------------------------------------------------------------------------
\* acceptConnectionRequest

\* ConnectionRequest.findById(requestId): the stored document, or null (NoDoc).
FindById(requestId) ==
  IF requestId \in 1..Len(requests) THEN requests[requestId] ELSE NoDoc

acceptConnectionRequest(p, userId, requestId) ==
  /\ Enter(p, "accept", userId, "", requestId, "accept_findById", NoResponse)
  /\ UNCHANGED <<users, headlines, posts, connections, requests, notifications, emails>>

\* Mutant: the null check is missing.
AcceptNotFoundNever(request) == FALSE

\* !request
AcceptNotFound(request) == request = NoDoc

\* Mutant: the caller is compared with the other party of the request.
AcceptNotAuthorizedAgainstSender(request, userId) == request.sender # userId

\* request.recipient._id.toString() !== userId.toString()
AcceptNotAuthorized(request, userId) == request.recipient # userId

\* Mutant: only an accepted request counts as processed.
AcceptAlreadyAccepted(request) == request.status = "accepted"

\* request.status !== "pending"
AcceptAlreadyProcessed(request) == request.status # "pending"

\* Mutant: the status is checked before the recipient.
accept_findByIdStatusFirst(p) ==
  LET c == calls[p]
      request == FindById(c.requestId) IN
  /\ c.pc = "accept_findById"
  /\ IF AcceptNotFound(request)
       THEN Respond(p, Json(404, "Connection request not found"))
       ELSE IF AcceptAlreadyProcessed(request)
         THEN Respond(p, Json(400, "This request has already been accepted"))
         ELSE IF AcceptNotAuthorized(request, c.actor)
           THEN Respond(p, Json(403, "You are not authorized to accept this request"))
           ELSE calls' = [calls EXCEPT ![p].pc = "accept_save",
                            ![p].request = [request EXCEPT !.status = "accepted"]]
  /\ UNCHANGED <<users, headlines, posts, connections, requests, notifications, emails, pre>>

accept_findById(p) ==
  LET c == calls[p]
      request == FindById(c.requestId) IN
  /\ c.pc = "accept_findById"
  /\ IF AcceptNotFound(request)
       THEN Respond(p, Json(404, "Connection request not found"))
       ELSE IF AcceptNotAuthorized(request, c.actor)
         THEN Respond(p, Json(403, "You are not authorized to accept this request"))
         ELSE IF AcceptAlreadyProcessed(request)
           THEN Respond(p, Json(400, "This request has already been accepted"))
           ELSE calls' = [calls EXCEPT ![p].pc = "accept_save",
                            ![p].request = [request EXCEPT !.status = "accepted"]]
  /\ UNCHANGED <<users, headlines, posts, connections, requests, notifications, emails, pre>>

\* Mutant: the update has no _id filter and reaches every document.
SaveStatusEveryRequest(requestId, request) ==
  [i \in 1..Len(requests) |-> [requests[i] EXCEPT !.status = request.status]]

\* request.save(): writes the modified path (status) of the loaded document.
SaveStatus(requestId, request) ==
  [requests EXCEPT ![requestId].status = request.status]

accept_save(p) ==
  LET c == calls[p] IN
  /\ c.pc = "accept_save"
  /\ requests' = SaveStatus(c.requestId, c.request)
  /\ Goto(p, "accept_updateSender")
  /\ UNCHANGED <<users, headlines, posts, connections, notifications, emails, pre>>

\* Mutant: the updated account's own id is added.
AddToSetOwnId(id, other) ==
  [connections EXCEPT ![id] = connections[id] \cup {id}]

\* User.findByIdAndUpdate(id, {$addToSet: {connections: other}})
AddToSet(id, other) ==
  [connections EXCEPT ![id] = connections[id] \cup {other}]

accept_updateSender(p) ==
  LET c == calls[p] IN
  /\ c.pc = "accept_updateSender"
  /\ connections' = AddToSet(c.request.sender, c.actor)
  /\ Goto(p, "accept_updateRecipient")
  /\ UNCHANGED <<users, headlines, posts, requests, notifications, emails, pre>>

accept_updateRecipient(p) ==
  LET c == calls[p] IN
  /\ c.pc = "accept_updateRecipient"
  /\ connections' = AddToSet(c.actor, c.request.sender)
  /\ Goto(p, "accept_notify")
  /\ UNCHANGED <<users, headlines, posts, requests, notifications, emails, pre>>

\* Mutant: recipient and relatedUser are exchanged.
AcceptNotificationToAcceptor(request, userId) ==
  [recipient |-> userId, type |-> "connectionAccepted",
   relatedUser |-> request.sender]

\* new Notification({recipient: request.sender._id, type: "connectionAccepted",
\*                   relatedUser: userId})
AcceptNotification(request, userId) ==
  [recipient |-> request.sender, type |-> "connectionAccepted",
   relatedUser |-> userId]

\* notification.save(), then res.status(200).json(...); the email comes after.
accept_notify(p) ==
  LET c == calls[p] IN
  /\ c.pc = "accept_notify"
  /\ notifications' = Append(notifications, AcceptNotification(c.request, c.actor))
  /\ calls' = [calls EXCEPT ![p].res = Json(200, "Connection request accepted"),
                            ![p].pc = "accept_email"]
  /\ UNCHANGED <<users, headlines, posts, connections, requests, emails, pre>>

\* sendConnectionAcceptedEmail(senderEmail, ...) resolves.
accept_email(p) ==
  LET c == calls[p] IN
  /\ c.pc = "accept_email"
  /\ emails' = Append(emails, c.request.sender)
  /\ Goto(p, "done")
  /\ UNCHANGED <<users, headlines, posts, connections, requests, notifications, pre>>

\* Mutant: the email is awaited without its own try/catch, so its failure
\* reaches the handler's catch block.
accept_emailFailedUncaught(p) ==
  /\ calls[p].pc = "accept_email"
  /\ Catch(p, "email")
  /\ UNCHANGED <<users, headlines, posts, connections, requests, notifications, emails, pre>>

\* sendConnectionAcceptedEmail rejects: the inner catch logs and the handler ends.
accept_emailFailed(p) ==
  /\ calls[p].pc = "accept_email"
  /\ Goto(p, "done")
  /\ UNCHANGED <<users, headlines, posts, connections, requests, notifications, emails, pre>>

----------------------------------------------------------------------------
\* rejectConnectionRequest

rejectConnectionRequest(p, userId, requestId) ==
  /\ Enter(p, "reject", userId, "", requestId, "reject_findById", NoResponse)
  /\ UNCHANGED <<users, headlines, posts, connections, requests, notifications, emails>>

\* request.recipient.toString() !== userId.toString()
RejectNotAuthorized(request, userId) == request.recipient # userId

\* request.status !== "pending"
RejectAlreadyProcessed(request) == request.status # "pending"

\* There is no null check: for an unknown id `request.recipient` throws a
\* TypeError, which the handler's catch turns into the 500 response.
reject_findById(p) ==
  LET c == calls[p]
      request == FindById(c.requestId) IN
  /\ c.pc = "reject_findById"
  /\ IF request = NoDoc
       THEN Catch(p, "TypeError")
       ELSE IF RejectNotAuthorized(request, c.actor)
         THEN Respond(p, Json(403, "You are not authorized to reject this request"))
         ELSE IF RejectAlreadyProcessed(request)
           THEN Respond(p, Json(400, "This request has already been processed"))
           ELSE calls' = [calls EXCEPT ![p].pc = "reject_save",
                            ![p].request = [request EXCEPT !.status = "rejected"]]
  /\ UNCHANGED <<users, headlines, posts, connections, requests, notifications, emails, pre>>

reject_save(p) ==
  LET c == calls[p] IN
  /\ c.pc = "reject_save"
  /\ requests' = SaveStatus(c.requestId, c.request)
  /\ Respond(p, Json(200, "Connection request rejected"))
  /\ UNCHANGED <<users, headlines, posts, connections, notifications, emails, pre>>

----------------------------------------------------------------------------
\* removeConnection

removeConnection(p, myId, userId) ==
  /\ Enter(p, "remove", myId, userId, 0, "remove_pullMine", NoResponse)
  /\ UNCHANGED <<users, headlines, posts, connections, requests, notifications, emails>>

\* Mutant: the updated account's own id is pulled.
PullOwnId(id, other) ==
  [connections EXCEPT ![id] = connections[id] \ {id}]

\* User.findByIdAndUpdate(id, {$pull: {connections: other}})
Pull(id, other) ==
  [connections EXCEPT ![id] = connections[id] \ {other}]

remove_pullMine(p) ==
  LET c == calls[p] IN
  /\ c.pc = "remove_pullMine"
  /\ connections' = Pull(c.actor, c.userId)
  /\ Goto(p, "remove_pullTheirs")
  /\ UNCHANGED <<users, headlines, posts, requests, notifications, emails, pre>>

remove_pullTheirs(p) ==
  LET c == calls[p] IN
  /\ c.pc = "remove_pullTheirs"
  /\ connections' = Pull(c.userId, c.actor)
  /\ Respond(p, Json(200, "Connection removed successfully"))
  /\ UNCHANGED <<users, headlines, posts, requests, notifications, emails, pre>>

----------------------------------------------------------------------------
\* getConnectionStatus

\* Mutant: the query has no status filter.
StatusRequestsOfAnyStatus(currentUserId, targetUserId) ==
  {i \in 1..Len(requests) :
     \/ requests[i].sender = currentUserId /\ requests[i].recipient = targetUserId
     \/ requests[i].sender = targetUserId /\ requests[i].recipient = currentUserId}

\* ConnectionRequest.findOne({$or: [{sender: cur, recipient: target},
\*                                   {sender: target, recipient: cur}],
\*                            status: "pending"}): the documents that match.
StatusPendingRequests(currentUserId, targetUserId) ==
  PendingFromTo(currentUserId, targetUserId)
    \cup PendingFromTo(targetUserId, currentUserId)

\* Mutant: the received answer carries no request id.
StatusOfPendingWithoutId(i, currentUserId) ==
  IF requests[i].sender = currentUserId
    THEN StatusJson("pending", 0)
    ELSE StatusJson("received", 0)

\* The response for the document findOne returned.
StatusOfPending(i, currentUserId) ==
  IF requests[i].sender = currentUserId
    THEN StatusJson("pending", 0)
    ELSE StatusJson("received", i)

\* currentUser.connections.includes(targetUserId)
StatusConnected(currentUserId, targetUserId) ==
  targetUserId \in connections[currentUserId]

\* The responses the handler can give after findOne: one of the matching
\* documents is returned (no sort is given), or null.
StatusAfterFindOne(currentUserId, targetUserId) ==
  LET found == StatusPendingRequests(currentUserId, targetUserId) IN
  IF found = {}
    THEN {StatusJson("not_connected", 0)}
    ELSE {StatusOfPending(i, currentUserId) : i \in found}

getConnectionStatus(p, currentUserId, targetUserId) ==
  /\ IF StatusConnected(currentUserId, targetUserId)
       THEN Enter(p, "status", currentUserId, targetUserId, 0, "done",
                  StatusJson("connected", 0))
       ELSE Enter(p, "status", currentUserId, targetUserId, 0, "status_findOne",
                  NoResponse)
  /\ UNCHANGED <<users, headlines, posts, connections, requests, notifications, emails>>

status_findOne(p) ==
  LET c == calls[p] IN
  /\ c.pc = "status_findOne"
  /\ \E r \in StatusAfterFindOne(c.actor, c.userId) : Respond(p, r)
  /\ UNCHANGED <<users, headlines, posts, connections, requests, notifications, emails, pre>>

----------------------------------------------------------------------------
\* getConnectionRequests

\* Mutant: the query has no status filter.
RequestsOfAnyStatusTo(userId) ==
  SelectSeq([i \in 1..Len(requests) |-> i], LAMBDA i : requests[i].recipient = userId)

\* The _ids of the documents matching {recipient: userId, status: "pending"},
\* in store order.
PendingRequestsTo(userId) ==
  SelectSeq([i \in 1..Len(requests) |-> i],
            LAMBDA i : requests[i].recipient = userId /\ requests[i].status = "pending")

getConnectionRequests(p, userId) ==
  /\ Enter(p, "requests", userId, "", 0, "requests_find", NoResponse)
  /\ UNCHANGED <<users, connections, requests, notifications, emails, headlines, posts>>

requests_find(p) ==
  LET c == calls[p] IN
  /\ c.pc = "requests_find"
  /\ Respond(p, [NoResponse EXCEPT !.code = 200, !.list = PendingRequestsTo(c.actor)])
  /\ UNCHANGED <<users, connections, requests, notifications, emails, headlines, posts, pre>>

----------------------------------------------------------------------------
\* getUserConnections

getUserConnections(p, userId) ==
  /\ Enter(p, "connections", userId, "", 0, "connections_findById", NoResponse)
  /\ UNCHANGED <<users, connections, requests, notifications, emails, headlines, posts>>

\* User.findById(userId): the stored document (without its other fields).
UserDoc(userId) ==
  [id |-> userId, headline |-> headlines[userId], connections |-> connections[userId]]

connections_findById(p) ==
  LET c == calls[p]
      user == UserDoc(c.actor) IN
  /\ c.pc = "connections_findById"
  /\ Respond(p, [NoResponse EXCEPT !.code = 200, !.accounts = user.connections])
  /\ UNCHANGED <<users, connections, requests, notifications, emails, headlines, posts, pre>>

----------------------------------------------------------------------------
\* updateProfile

\* Mutant: connections is among the fields a profile update may set.
AllowedFieldsWithConnections ==
  {"name", "username", "headline", "about", "location", "profilePicture",
   "bannerImg", "skills", "experience", "education", "connections"}

AllowedFields ==
  {"name", "username", "headline", "about", "location", "profilePicture",
   "bannerImg", "skills", "experience", "education"}

\* The request bodies used: any of the fields headline and connections, the
\* headline empty or not, the connections an array naming another account.
Bodies ==
  {b \in [fields : SUBSET {"headline", "connections"},
          headline : {"", "Student"},
          connections : {{}, {"c"}}] :
     /\ "headline" \notin b.fields => b.headline = ""
     /\ "connections" \notin b.fields => b.connections = {}
     /\ "connections" \in b.fields => b.connections # {}}

\* req.body[field] is truthy: an empty string is not, an array is.
Truthy(body, field) ==
  /\ field \in body.fields
  /\ field = "headline" => body.headline # ""

\* for (const field of allowedFields) if (req.body[field]) updatedData[field] = ...
UpdatedData(body) ==
  LET fields == {f \in AllowedFields : Truthy(body, f)} IN
  [fields |-> fields,
   headline |-> IF "headline" \in fields THEN body.headline ELSE "",
   connections |-> IF "connections" \in fields THEN body.connections ELSE {}]

updateProfile(p, userId, body) ==
  /\ Begin(p, [IdleCall EXCEPT !.op = "update", !.actor = userId,
                               !.pc = "update_findByIdAndUpdate",
                               !.body = body])
  /\ UNCHANGED <<users, connections, requests, notifications, emails, headlines, posts>>

\* User.findByIdAndUpdate(req.user._id, {$set: updatedData}, {new: true})
update_findByIdAndUpdate(p) ==
  LET c == calls[p]
      updatedData == UpdatedData(c.body) IN
  /\ c.pc = "update_findByIdAndUpdate"
  /\ headlines' = IF "headline" \in updatedData.fields
                    THEN [headlines EXCEPT ![c.actor] = updatedData.headline]
                    ELSE headlines
  /\ connections' = IF "connections" \in updatedData.fields
                      THEN [connections EXCEPT ![c.actor] = updatedData.connections]
                      ELSE connections
  /\ Respond(p, [NoResponse EXCEPT !.code = 200,
                   !.user = [id |-> c.actor, headline |-> headlines'[c.actor],
                             connections |-> connections'[c.actor]]])
  /\ UNCHANGED <<users, requests, notifications, emails, posts, pre>>

----------------------------------------------------------------------------
\* getPublicProfile

\* The `username` field of the stored accounts.
UsernameOf(u) ==
  CASE u = "a" -> "alice"
    [] u = "b" -> "bob"
    [] OTHER -> "carol"

\* req.params.username: the stored usernames and one that no account has.
Usernames == {UsernameOf(u) : u \in Accounts} \cup {"dave"}

\* User.findOne({username}): the accounts that match.
FindByUsername(username) == {u \in Accounts : UsernameOf(u) = username}

getPublicProfile(p, username) ==
  /\ Enter(p, "profile", "", username, 0, "profile_findOne", NoResponse)
  /\ UNCHANGED <<users, connections, requests, notifications, emails, headlines, posts>>

\* When the account is found the handler ends without sending anything.
profile_findOne(p) ==
  LET c == calls[p]
      user == FindByUsername(c.userId) IN
  /\ c.pc = "profile_findOne"
  /\ IF user = {}
       THEN Respond(p, Json(404, "User not found"))
       ELSE Goto(p, "done")
  /\ UNCHANGED <<users, connections, requests, notifications, emails, headlines, posts, pre>>

----------------------------------------------------------------------------
\* The post controller: createPost, deletePost, createComment, likePost.

\* Post.findById(postId): the stored document, or null (NoPost).
FindPost(postId) ==
  IF postId \in 1..Len(posts) /\ ~posts[postId].deleted THEN posts[postId] ELSE NoPost

\* A deleted document leaves its _id behind: ids are not given out again.
DeletedPost == [NoPost EXCEPT !.deleted = TRUE]

\* new Post({author: req.user._id, content, image}): comments and likes default
\* to empty arrays.
NewPost(author, image) == [NoPost EXCEPT !.author = author, !.image = image]

\* With an image in the body it is first uploaded.
createPost(p, userId, image) ==
  /\ Len(posts) < MaxPosts
  /\ Begin(p, [IdleCall EXCEPT !.op = "post", !.actor = userId,
                               !.post = NewPost(userId, image),
                               !.pc = IF image THEN "post_upload" ELSE "post_save"])
  /\ UNCHANGED <<users, connections, requests, notifications, emails, headlines, posts>>

\* cloudinary.uploader.upload(image) resolves.
post_upload(p) ==
  /\ calls[p].pc = "post_upload"
  /\ Goto(p, "post_save")
  /\ UNCHANGED <<users, connections, requests, notifications, emails, headlines, posts, pre>>

post_save(p) ==
  LET c == calls[p] IN
  /\ c.pc = "post_save"
  /\ posts' = Append(posts, c.post)
  /\ calls' = [calls EXCEPT ![p].postId = Len(posts) + 1, ![p].pc = "done",
                            ![p].res = [NoResponse EXCEPT !.code = 201]]
  /\ UNCHANGED <<users, connections, requests, notifications, emails, headlines, pre>>

deletePost(p, userId, postId) ==
  /\ Begin(p, [IdleCall EXCEPT !.op = "delete", !.actor = userId, !.postId = postId,
                               !.pc = "delete_findById"])
  /\ UNCHANGED <<users, connections, requests, notifications, emails, headlines, posts>>

\* Mutant: the author check is missing.
DeleteNotAuthorizedNever(post, userId) == FALSE

\* post.author.toString() !== userId.toString()
DeleteNotAuthorized(post, userId) == post.author # userId

delete_findById(p) ==
  LET c == calls[p]
      post == FindPost(c.postId) IN
  /\ c.pc = "delete_findById"
  /\ IF post = NoPost
       THEN Respond(p, Json(404, "Post not found"))
       ELSE IF DeleteNotAuthorized(post, c.actor)
         THEN Respond(p, Json(403, "You are not authorized to delete this post"))
         ELSE calls' = [calls EXCEPT ![p].post = post,
                          ![p].pc = IF post.image THEN "delete_destroy"
                                                  ELSE "delete_findByIdAndDelete"]
  /\ UNCHANGED <<users, connections, requests, notifications, emails, headlines, posts, pre>>

\* cloudinary.uploader.destroy(publicId) resolves.
delete_destroy(p) ==
  /\ calls[p].pc = "delete_destroy"
  /\ Goto(p, "delete_findByIdAndDelete")
  /\ UNCHANGED <<users, connections, requests, notifications, emails, headlines, posts, pre>>

\* Post.findByIdAndDelete(postId)
DeleteById(postId) ==
  IF FindPost(postId) = NoPost THEN posts ELSE [posts EXCEPT ![postId] = DeletedPost]

delete_findByIdAndDelete(p) ==
  LET c == calls[p] IN
  /\ c.pc = "delete_findByIdAndDelete"
  /\ posts' = DeleteById(c.postId)
  /\ Respond(p, Json(200, "Post deleted successfully"))
  /\ UNCHANGED <<users, connections, requests, notifications, emails, headlines, pre>>

\* The upload or the removal of the image fails: the catch answers 500.
CloudinaryFailure(p) ==
  /\ calls[p].pc \in {"post_upload", "delete_destroy"}
  /\ Catch(p, "cloudinary")
  /\ UNCHANGED <<users, connections, requests, notifications, emails, headlines, posts, pre>>

\* The comments of the stored posts leave room for one more.
RECURSIVE CommentCount(_)
CommentCount(n) ==
  IF n = 0 THEN 0 ELSE Len(posts[n].comments) + CommentCount(n - 1)

RoomForComment(postId) ==
  FindPost(postId) = NoPost \/ CommentCount(Len(posts)) < MaxComments

\* The notification log has room for what a call that notifies would add.
RoomForNotification(notifies) ==
  notifies => Len(notifications) < MaxNotifications

createComment(p, userId, postId) ==
  /\ RoomForComment(postId)
  /\ RoomForNotification(FindPost(postId) # NoPost /\ FindPost(postId).author # userId)
  /\ Begin(p, [IdleCall EXCEPT !.op = "comment", !.actor = userId, !.postId = postId,
                               !.pc = "comment_push"])
  /\ UNCHANGED <<users, connections, requests, notifications, emails, headlines, posts>>

\* Mutant: the author is notified of the author's own comments too.
CommentByAnyone(post, userId) == TRUE

\* post.author._id.toString() !== req.user._id.toString()
CommentByOther(post, userId) == post.author # userId

\* Post.findByIdAndUpdate(postId, {$push: {comments: {user, content}}}, {new: true}).
\* For an unknown id it resolves to null and `post.author` throws a TypeError.
comment_push(p) ==
  LET c == calls[p]
      found == FindPost(c.postId)
      post == [found EXCEPT !.comments = Append(found.comments, c.actor)] IN
  /\ c.pc = "comment_push"
  /\ IF found = NoPost
       THEN /\ Catch(p, "TypeError")
            /\ UNCHANGED posts
       ELSE /\ posts' = [posts EXCEPT ![c.postId] = post]
            /\ IF CommentByOther(post, c.actor)
                 THEN calls' = [calls EXCEPT ![p].post = post, ![p].pc = "comment_notify"]
                 ELSE calls' = [calls EXCEPT ![p].post = post, ![p].pc = "done",
                                  ![p].res = [NoResponse EXCEPT !.code = 200]]
  /\ UNCHANGED <<users, connections, requests, notifications, emails, headlines, pre>>

\* new Notification({recipient: post.author, type: "comment",
\*                   relatedUser: req.user._id, relatedPost: post._id})
CommentNotification(post, userId, postId) ==
  [recipient |-> post.author, type |-> "comment", relatedUser |-> userId,
   relatedPost |-> postId]

comment_notify(p) ==
  LET c == calls[p] IN
  /\ c.pc = "comment_notify"
  /\ notifications' = Append(notifications, CommentNotification(c.post, c.actor, c.postId))
  /\ Goto(p, "comment_email")
  /\ UNCHANGED <<users, connections, requests, emails, headlines, posts, pre>>

\* sendCommentNotificationEmail(post.author.email, ...) resolves; then the 200.
comment_email(p) ==
  LET c == calls[p] IN
  /\ c.pc = "comment_email"
  /\ emails' = Append(emails, c.post.author)
  /\ Respond(p, [NoResponse EXCEPT !.code = 200])
  /\ UNCHANGED <<users, connections, requests, notifications, headlines, posts, pre>>

\* Mutant: the email is awaited without its own try/catch.
comment_emailFailedUncaught(p) ==
  /\ calls[p].pc = "comment_email"
  /\ Catch(p, "email")
  /\ UNCHANGED <<users, connections, requests, notifications, emails, headlines, posts, pre>>

\* sendCommentNotificationEmail rejects: the inner catch logs; then the 200.
comment_emailFailed(p) ==
  /\ calls[p].pc = "comment_email"
  /\ Respond(p, [NoResponse EXCEPT !.code = 200])
  /\ UNCHANGED <<users, connections, requests, notifications, emails, headlines, posts, pre>>

\* post.likes.includes(userId)
Includes(likes, userId) == \E i \in 1..Len(likes) : likes[i] = userId

likePost(p, userId, postId) ==
  /\ RoomForNotification(/\ FindPost(postId) # NoPost
                         /\ FindPost(postId).author # userId
                         /\ ~Includes(FindPost(postId).likes, userId))
  /\ Begin(p, [IdleCall EXCEPT !.op = "like", !.actor = userId, !.postId = postId,
                               !.pc = "like_findById"])
  /\ UNCHANGED <<users, connections, requests, notifications, emails, headlines, posts>>

\* Mutant: the filter keeps no id.
LikesWithoutAnyone(likes, userId) == <<>>

\* post.likes.filter((id) => id.toString() !== userId.toString())
LikesWithout(likes, userId) == SelectSeq(likes, LAMBDA id : id # userId)

\* Post.findById(postId), then the change of post.likes in memory.  For an
\* unknown id `post.likes` throws a TypeError.
like_findById(p) ==
  LET c == calls[p]
      post == FindPost(c.postId) IN
  /\ c.pc = "like_findById"
  /\ IF post = NoPost
       THEN Catch(p, "TypeError")
       ELSE IF Includes(post.likes, c.actor)
         THEN calls' = [calls EXCEPT
                          ![p].post = [post EXCEPT !.likes = LikesWithout(post.likes, c.actor)],
                          ![p].pc = "like_save"]
         ELSE calls' = [calls EXCEPT
                          ![p].post = [post EXCEPT !.likes = Append(post.likes, c.actor)],
                          ![p].pc = IF post.author # c.actor THEN "like_notify"
                                                             ELSE "like_save"]
  /\ UNCHANGED <<users, connections, requests, notifications, emails, headlines, posts, pre>>

\* new Notification({recipient: post.author, type: "like", relatedUser: userId,
\*                   relatedPost: postId})
LikeNotification(post, userId, postId) ==
  [recipient |-> post.author, type |-> "like", relatedUser |-> userId,
   relatedPost |-> postId]

like_notify(p) ==
  LET c == calls[p] IN
  /\ c.pc = "like_notify"
  /\ notifications' = Append(notifications, LikeNotification(c.post, c.actor, c.postId))
  /\ Goto(p, "like_save")
  /\ UNCHANGED <<users, connections, requests, emails, headlines, posts, pre>>

\* post.save(): writes the modified path (likes) of the loaded document.
like_save(p) ==
  LET c == calls[p] IN
  /\ c.pc = "like_save"
  /\ posts' = [posts EXCEPT ![c.postId].likes = c.post.likes]
  /\ Respond(p, [NoResponse EXCEPT !.code = 200])
  /\ UNCHANGED <<users, connections, requests, notifications, emails, headlines, pre>>

----------------------------------------------------------------------------
\* signup

\* The `email` field of the accounts that exist from the start.
EmailOf(u) ==
  CASE u = "a" -> "alice@campus"
    [] u = "b" -> "bob@campus"
    [] OTHER -> "carol@campus"

\* req.body: each field missing (empty) or given, the username and the email
\* those of a stored account or new ones, the password short or long enough.
Forms ==
  [name : {"", "Dave"},
   username : {"", "alice", "dave", "erin"},
   email : {"", "alice@campus", "dave@campus", "erin@campus"},
   password : {"", "12345", "123456"}]

\* !name || !username || !email || !password
SignupMissingField(form) ==
  form.name = "" \/ form.username = "" \/ form.email = "" \/ form.password = ""

\* User.findOne({email}) finds an account.
SignupExistingEmail(email) ==
  \/ \E u \in Accounts : EmailOf(u) = email
  \/ \E i \in 1..Len(users) : users[i].email = email

\* Mutant: the username is not looked up.
SignupExistingUsernameNever(username) == FALSE

\* User.findOne({username}) finds an account.
SignupExistingUsername(username) ==
  \/ FindByUsername(username) # {}
  \/ \E i \in 1..Len(users) : users[i].username = username

\* password.length < 6
SignupShortPassword(password) == Len(password) < MinPasswordLength

\* The call will not reach user.save().
SignupRejects(form) ==
  \/ SignupMissingField(form)
  \/ SignupExistingEmail(form.email)
  \/ SignupExistingUsername(form.username)
  \/ SignupShortPassword(form.password)

signup(p, form) ==
  /\ SignupRejects(form) \/ Len(users) < MaxUsers
  /\ IF SignupMissingField(form)
       THEN Begin(p, [IdleCall EXCEPT !.op = "signup", !.form = form, !.pc = "done",
                                      !.res = Json(400, "All fields are required")])
       ELSE Begin(p, [IdleCall EXCEPT !.op = "signup", !.form = form,
                                      !.pc = "signup_findEmail"])
  /\ UNCHANGED <<connections, requests, notifications, emails, headlines, posts, users>>

signup_findEmail(p) ==
  LET c == calls[p] IN
  /\ c.pc = "signup_findEmail"
  /\ IF SignupExistingEmail(c.form.email)
       THEN Respond(p, Json(400, "Email already exists"))
       ELSE Goto(p, "signup_findUsername")
  /\ UNCHANGED <<connections, requests, notifications, emails, headlines, posts, users,
                 pre>>

signup_findUsername(p) ==
  LET c == calls[p] IN
  /\ c.pc = "signup_findUsername"
  /\ IF SignupExistingUsername(c.form.username)
       THEN Respond(p, Json(400, "Username already exists"))
       ELSE IF SignupShortPassword(c.form.password)
         THEN Respond(p, Json(400, "Password must be at least 6 characters long"))
         ELSE Goto(p, "signup_genSalt")
  /\ UNCHANGED <<connections, requests, notifications, emails, headlines, posts, users,
                 pre>>

\* bcrypt.genSalt(10) resolves.
signup_genSalt(p) ==
  /\ calls[p].pc = "signup_genSalt"
  /\ Goto(p, "signup_hash")
  /\ UNCHANGED <<connections, requests, notifications, emails, headlines, posts, users,
                 pre>>

\* bcrypt.hash(password, salt) resolves.
signup_hash(p) ==
  /\ calls[p].pc = "signup_hash"
  /\ Goto(p, "signup_save")
  /\ UNCHANGED <<connections, requests, notifications, emails, headlines, posts, users,
                 pre>>

\* bcrypt rejects: the catch answers 500.
BcryptFailure(p) ==
  /\ calls[p].pc \in {"signup_genSalt", "signup_hash"}
  /\ Catch(p, "bcrypt")
  /\ UNCHANGED <<connections, requests, notifications, emails, headlines, posts, users,
                 pre>>

\* new User({name, username, email, password: hashedPassword})
NewUser(form) ==
  [name |-> form.name, username |-> form.username, email |-> form.email,
   password |-> <<"bcrypt", form.password>>]

\* user.save(), the cookie and the 201; the welcome email comes after.
signup_save(p) ==
  LET c == calls[p] IN
  /\ c.pc = "signup_save"
  /\ users' = Append(users, NewUser(c.form))
  /\ calls' = [calls EXCEPT ![p].res = Json(201, "User registered successfully"),
                            ![p].pc = "signup_email"]
  /\ UNCHANGED <<connections, requests, notifications, emails, headlines, posts, pre>>

\* sendWelcomeEmail is not imported by the controller: the call throws a
\* ReferenceError inside the inner try, which logs it, and the handler ends.
signup_emailFailed(p) ==
  /\ calls[p].pc = "signup_email"
  /\ Goto(p, "done")
  /\ UNCHANGED <<connections, requests, notifications, emails, headlines, posts, users,
                 pre>>

----------------------------------------------------------------------------
\* A storage call rejects: the handler's catch answers 500.

StoragePcs ==
  {"send_findOne", "send_save",
   "accept_findById", "accept_save", "accept_updateSender",
   "accept_updateRecipient", "accept_notify",
   "reject_findById", "reject_save",
   "remove_pullMine", "remove_pullTheirs",
   "status_findOne",
   "requests_find", "connections_findById", "update_findByIdAndUpdate",
   "profile_findOne",
   "post_save", "delete_findById", "delete_findByIdAndDelete",
   "comment_push", "comment_notify", "like_findById", "like_notify", "like_save",
   "signup_findEmail", "signup_findUsername", "signup_save"}

StorageFailure(p) ==
  /\ calls[p].pc \in StoragePcs
  /\ Catch(p, "storage")
  /\ UNCHANGED <<users, headlines, posts, connections, requests, notifications, emails, pre>>

----------------------------------------------------------------------------
Init ==
  /\ connections = [u \in Accounts |-> {}]
  /\ requests = <<>>
  /\ notifications = <<>>
  /\ emails = <<>>
  /\ headlines = [u \in Accounts |-> ""]
  /\ posts = <<>>
  /\ users = <<>>
  /\ calls = [p \in Procs |-> IdleCall]
  /\ pre = NoPre

Continue(p) ==
  \/ send_findOne(p)
  \/ send_save(p)
  \/ accept_findById(p)
  \/ accept_save(p)
  \/ accept_updateSender(p)
  \/ accept_updateRecipient(p)
  \/ accept_notify(p)
  \/ accept_email(p)
  \/ accept_emailFailed(p)
  \/ reject_findById(p)
  \/ reject_save(p)
  \/ remove_pullMine(p)
  \/ remove_pullTheirs(p)
  \/ status_findOne(p)
  \/ StorageFailure(p)

\* Calls run one after another, each to its end, on one task.
MainProc == "p1"

Next ==
  \/ Quiescent /\ \E senderId, userId \in Members :
                    sendConnectionRequest(MainProc, senderId, userId)
  \/ Quiescent /\ \E userId \in Accounts, requestId \in RequestIds :
                    acceptConnectionRequest(MainProc, userId, requestId)
  \/ Quiescent /\ \E userId \in Accounts, requestId \in RequestIds :
                    rejectConnectionRequest(MainProc, userId, requestId)
  \/ Quiescent /\ \E myId, userId \in Members :
                    removeConnection(MainProc, myId, userId)
  \/ Quiescent /\ \E currentUserId, targetUserId \in Members :
                    getConnectionStatus(MainProc, currentUserId, targetUserId)
  \/ Continue(MainProc)

Spec == Init /\ [][Next]_vars

\* Calls on the requests are handled concurrently: an accept or a reject may
\* begin while another call is at an await.  Storage calls succeed.
BeginConc(p) ==
  \/ Quiescent /\ \E senderId, userId \in Members :
                    sendConnectionRequest(p, senderId, userId)
  \/ \E userId \in Accounts, requestId \in RequestIds :
       acceptConnectionRequest(p, userId, requestId)
  \/ \E userId \in Accounts, requestId \in RequestIds :
       rejectConnectionRequest(p, userId, requestId)

ContinueConc(p) ==
  \/ send_findOne(p)
  \/ send_save(p)
  \/ accept_findById(p)
  \/ accept_save(p)
  \/ accept_updateSender(p)
  \/ accept_updateRecipient(p)
  \/ accept_notify(p)
  \/ accept_email(p)
  \/ accept_emailFailed(p)
  \/ reject_findById(p)
  \/ reject_save(p)

NextConc == \E p \in Procs : BeginConc(p) \/ ContinueConc(p)

SpecConc == Init /\ [][NextConc]_vars

\* The accounts whose profile is updated.
Editors == {"a"}

\* The account-side calls (listings, profile update, public profile) together
\* with the connection calls, one after another.
BeginAccount(p) ==
  \/ \E userId \in Accounts : getConnectionRequests(p, userId)
  \/ \E userId \in Members : getUserConnections(p, userId)
  \/ \E userId \in Editors, body \in Bodies : updateProfile(p, userId, body)
  \/ \E username \in Usernames : getPublicProfile(p, username)

ContinueAccount(p) ==
  \/ requests_find(p)
  \/ connections_findById(p)
  \/ update_findByIdAndUpdate(p)
  \/ profile_findOne(p)

\* In these runs the storage calls of the connection handlers succeed.
AccountStorageFailure(p) ==
  /\ calls[p].op \in {"requests", "connections", "update", "profile"}
  /\ StorageFailure(p)

NextAccount ==
  \/ Quiescent /\ \E senderId, userId \in Members :
                    sendConnectionRequest(MainProc, senderId, userId)
  \/ Quiescent /\ \E userId \in Members, requestId \in RequestIds :
                    acceptConnectionRequest(MainProc, userId, requestId)
  \/ Quiescent /\ \E userId \in Members, requestId \in RequestIds :
                    rejectConnectionRequest(MainProc, userId, requestId)
  \/ Quiescent /\ \E myId, userId \in Members :
                    removeConnection(MainProc, myId, userId)
  \/ Quiescent /\ \E currentUserId, targetUserId \in Members :
                    getConnectionStatus(MainProc, currentUserId, targetUserId)
  \/ Quiescent /\ BeginAccount(MainProc)
  \/ ContinueConc(MainProc)
  \/ remove_pullMine(MainProc)
  \/ remove_pullTheirs(MainProc)
  \/ status_findOne(MainProc)
  \/ ContinueAccount(MainProc)
  \/ AccountStorageFailure(MainProc)

SpecAccount == Init /\ [][NextAccount]_vars

\* The accounts that write posts; every member comments, likes and deletes.
Authors == {"a"}

\* The connection and post calls that notify, one after another: the authors
\* send requests and write posts, the members accept and comment.
NextFanout ==
  \/ Quiescent /\ \E senderId \in Authors, userId \in Members :
                    sendConnectionRequest(MainProc, senderId, userId)
  \/ Quiescent /\ \E userId \in Members, requestId \in RequestIds :
                    acceptConnectionRequest(MainProc, userId, requestId)
  \/ Quiescent /\ \E userId \in Authors : createPost(MainProc, userId, FALSE)
  \/ Quiescent /\ \E userId \in Members, postId \in PostIds :
                    createComment(MainProc, userId, postId)
  \/ send_findOne(MainProc)
  \/ send_save(MainProc)
  \/ accept_findById(MainProc)
  \/ accept_save(MainProc)
  \/ accept_updateSender(MainProc)
  \/ accept_updateRecipient(MainProc)
  \/ accept_notify(MainProc)
  \/ accept_email(MainProc)
  \/ accept_emailFailed(MainProc)
  \/ post_save(MainProc)
  \/ comment_push(MainProc)
  \/ comment_notify(MainProc)
  \/ comment_email(MainProc)
  \/ comment_emailFailed(MainProc)
  \/ StorageFailure(MainProc)

SpecFanout == Init /\ [][NextFanout]_vars

\* The post calls, one after another.
BeginPosts(p) ==
  \/ \E userId \in Authors, image \in BOOLEAN : createPost(p, userId, image)
  \/ \E userId \in Members, postId \in PostIds : deletePost(p, userId, postId)
  \/ \E userId \in Members, postId \in PostIds : createComment(p, userId, postId)
  \/ \E userId \in Members, postId \in PostIds : likePost(p, userId, postId)

ContinuePosts(p) ==
  \/ post_upload(p)
  \/ post_save(p)
  \/ delete_findById(p)
  \/ delete_destroy(p)
  \/ delete_findByIdAndDelete(p)
  \/ comment_push(p)
  \/ comment_notify(p)
  \/ comment_email(p)
  \/ comment_emailFailed(p)
  \/ like_findById(p)
  \/ like_notify(p)
  \/ like_save(p)
  \/ CloudinaryFailure(p)
  \/ StorageFailure(p)

NextPosts ==
  \/ Quiescent /\ BeginPosts(MainProc)
  \/ ContinuePosts(MainProc)

SpecPosts == Init /\ [][NextPosts]_vars

\* The signup calls, one after another.
NextAuth ==
  \/ Quiescent /\ \E form \in Forms : signup(MainProc, form)
  \/ signup_findEmail(MainProc)
  \/ signup_findUsername(MainProc)
  \/ signup_genSalt(MainProc)
  \/ signup_hash(MainProc)
  \/ signup_save(MainProc)
  \/ signup_emailFailed(MainProc)
  \/ BcryptFailure(MainProc)
  \/ StorageFailure(MainProc)

SpecAuth == Init /\ [][NextAuth]_vars

----------------------------------------------------------------------------
\* Vocabulary of the properties.

\* The error kind a response stands for.
Kind(res) ==
  CASE res.code \in {200, 201} -> "Success"
    [] res.code = 400 /\ res.message = "You cannot send connection request to yourself"
         -> "InvalidOperation"
    [] res.code = 400 -> "Conflict"
    [] res.code = 403 -> "Forbidden"
    [] res.code = 404 -> "NotFound"
    [] res.code = 500 -> "Internal"
    [] OTHER -> "None"

\* Call p has answered (the acceptance email may still be under way).
Answered(p) == calls[p].res # NoResponse

\* Call p has run alone since it began: `pre` holds the collections it found.
Alone(p) == pre.owner = p

\* The request call p names existed when p began.
Named(p) == calls[p].requestId \in 1..Len(pre.requests)

NamedRequest(p) == pre.requests[calls[p].requestId]

PendingBetweenIn(reqs, x, y) == PendingIn(reqs, x, y) \cup PendingIn(reqs, y, x)

Unchanged(p) ==
  /\ connections = pre.connections
  /\ requests = pre.requests
  /\ notifications = pre.notifications
  /\ emails = pre.emails
  /\ headlines = pre.headlines
  /\ posts = pre.posts
  /\ users = pre.users

\* What getConnectionStatus(actor, target) can answer when run in this state.
StatusNow(currentUserId, targetUserId) ==
  IF StatusConnected(currentUserId, targetUserId)
    THEN {StatusJson("connected", 0)}
    ELSE StatusAfterFindOne(currentUserId, targetUserId)

----------------------------------------------------------------------------
\* C1: when two accept calls by the recipient overlap on one request and one of
\* them succeeds, exactly one succeeds and the other is answered Conflict.
\* (Two call records exist side by side only when the calls overlapped.)
C1_ConcurrentAcceptsOneSucceeds ==
  \A p, q \in Procs :
    ( /\ p # q
      /\ calls[p].op = "accept" /\ calls[q].op = "accept"
      /\ calls[p].requestId = calls[q].requestId
      /\ calls[p].requestId \in 1..Len(requests)
      /\ calls[p].actor = requests[calls[p].requestId].recipient
      /\ calls[q].actor = calls[p].actor
      /\ calls[p].pc = "done" /\ calls[q].pc = "done"
      /\ Kind(calls[p].res) = "Success" )
    => Kind(calls[q].res) = "Conflict"

\* C2: at most one pending request exists between any two accounts, counting
\* both directions.
C2_AtMostOnePendingPerPair ==
  \A x, y \in Accounts :
    Cardinality(PendingBetweenIn(requests, x, y)) <= 1

\* C3: a send between two accounts that already have a pending request, in
\* either direction, is answered Conflict and creates no request.
C3_SendConflictEitherDirection ==
  \A p \in Procs :
    ( /\ Alone(p)
      /\ calls[p].op = "send" /\ calls[p].pc = "done" /\ calls[p].error = ""
      /\ PendingBetweenIn(pre.requests, calls[p].actor, calls[p].userId) # {} )
    => /\ Kind(calls[p].res) = "Conflict"
       /\ requests = pre.requests

\* C4: whenever every call has run to its end (a 500 after a failed storage
\* write included), the connections relation is symmetric.
C4_ConnectionsSymmetric ==
  Quiescent =>
    \A x, y \in Accounts : (y \in connections[x]) <=> (x \in connections[y])

\* C5: right after accept has answered success on a request between S and R,
\* getConnectionStatus answers connected for (S, R) and for (R, S).
C5_ConnectedAfterAccept ==
  \A p \in Procs :
    ( /\ Alone(p)
      /\ calls[p].op = "accept"
      /\ Kind(calls[p].res) = "Success" )
    => LET S == calls[p].request.sender
           R == calls[p].request.recipient IN
       /\ StatusNow(S, R) = {StatusJson("connected", 0)}
       /\ StatusNow(R, S) = {StatusJson("connected", 0)}

C5_Witness ==
  \E p \in Procs :
    /\ Alone(p)
    /\ calls[p].op = "accept"
    /\ calls[p].pc = "done"
    /\ Kind(calls[p].res) = "Success"
    /\ NamedRequest(p).status = "pending"

\* C6: a stored status that is accepted or rejected never changes again.
C6_StatusMonotonic ==
  [][\A i \in 1..Len(requests) :
       requests[i].status # "pending" => requests'[i].status = requests[i].status]_vars

\* C7: an accept or reject of a request that is no longer pending changes
\* nothing and does not succeed; made by the request's recipient it is answered
\* Conflict (unless a storage call failed).
C7_ResolvedRequestConflict ==
  \A p \in Procs :
    ( /\ Alone(p)
      /\ calls[p].op \in {"accept", "reject"} /\ calls[p].pc = "done"
      /\ Named(p)
      /\ NamedRequest(p).status # "pending" )
    => /\ Unchanged(p)
       /\ Kind(calls[p].res) # "Success"
       /\ (calls[p].actor = NamedRequest(p).recipient /\ calls[p].error = "")
            => Kind(calls[p].res) = "Conflict"

\* reject followed by accept: the accept is answered Conflict.
C7_Witness ==
  \E p \in Procs :
    /\ Alone(p)
    /\ calls[p].op = "accept" /\ calls[p].pc = "done"
    /\ Named(p)
    /\ NamedRequest(p).status = "rejected"
    /\ calls[p].actor = NamedRequest(p).recipient
    /\ Kind(calls[p].res) = "Conflict"

\* C8: an accept or reject by anyone but the request's recipient is answered
\* Forbidden (unless a storage call failed) and changes nothing; and every
\* change of a request's status is a step of a call by that request's recipient.
C8_ForbiddenChangesNothing ==
  \A p \in Procs :
    ( /\ Alone(p)
      /\ calls[p].op \in {"accept", "reject"} /\ calls[p].pc = "done"
      /\ Named(p)
      /\ calls[p].actor # NamedRequest(p).recipient )
    => /\ Unchanged(p)
       /\ calls[p].error = "" => Kind(calls[p].res) = "Forbidden"

C8_StatusChangedByRecipient ==
  \A i \in 1..Len(requests) :
    requests'[i].status # requests[i].status =>
      \E p \in Procs :
        /\ calls[p].op \in {"accept", "reject"}
        /\ calls[p].requestId = i
        /\ calls[p].actor = requests[i].recipient
        /\ calls'[p] # calls[p]

C8_OnlyRecipientResolves ==
  [](C8_ForbiddenChangesNothing) /\ [][C8_StatusChangedByRecipient]_vars

\* The sender tries to accept the request it sent.
C8_Witness ==
  \E p \in Procs :
    /\ Alone(p)
    /\ calls[p].op = "accept" /\ calls[p].pc = "done"
    /\ Named(p)
    /\ calls[p].actor = NamedRequest(p).sender
    /\ NamedRequest(p).status = "pending"
    /\ Kind(calls[p].res) = "Forbidden"

\* C9: a successful accept of pending request R (sender S) by its recipient sets
\* R.status to accepted, adds each of the two to the other's connections and
\* appends one notification {recipient: S, connectionAccepted, relatedUser:
\* actor}; nothing else in the three collections differs.
C9_AcceptEffect ==
  \A p \in Procs :
    ( /\ Alone(p)
      /\ calls[p].op = "accept"
      /\ Kind(calls[p].res) = "Success" )
    => LET id == calls[p].requestId
           actor == calls[p].actor
           S == NamedRequest(p).sender IN
       /\ Named(p)
       /\ NamedRequest(p).status = "pending"
       /\ NamedRequest(p).recipient = actor
       /\ requests = [pre.requests EXCEPT ![id].status = "accepted"]
       /\ connections =
            [u \in Accounts |->
               IF u = S THEN pre.connections[u] \cup {actor}
               ELSE IF u = actor THEN pre.connections[u] \cup {S}
               ELSE pre.connections[u]]
       /\ notifications =
            Append(pre.notifications,
                   [recipient |-> S, type |-> "connectionAccepted",
                    relatedUser |-> actor])

C9_Witness ==
  \E p \in Procs :
    /\ Alone(p)
    /\ calls[p].op = "accept" /\ calls[p].pc = "done"
    /\ Kind(calls[p].res) = "Success"
    /\ Len(notifications) = Len(pre.notifications) + 1

\* C10: every connectionAccepted notification is addressed to the sender of a
\* request whose status is accepted, with that request's recipient as relatedUser.
C10_NotificationForAcceptedRequest ==
  \A n \in 1..Len(notifications) :
    notifications[n].type = "connectionAccepted" =>
      \E i \in 1..Len(requests) :
        /\ requests[i].status = "accepted"
        /\ requests[i].sender = notifications[n].recipient
        /\ requests[i].recipient = notifications[n].relatedUser


\* The number of connectionAccepted notifications to s about r.
AcceptedNotifications(s, r) ==
  Cardinality({n \in 1..Len(notifications) :
     /\ notifications[n].type = "connectionAccepted"
     /\ notifications[n].recipient = s
     /\ notifications[n].relatedUser = r})

RequestsFromTo(s, r) ==
  {i \in 1..Len(requests) : requests[i].sender = s /\ requests[i].recipient = r}

\* C11: under any interleaving of accept calls a request gives rise to at most
\* one connectionAccepted notification: the sender's log never holds more such
\* entries about the recipient than there are requests from the one to the other.
C11_OneNotificationPerRequest ==
  \A s, r \in Accounts :
    AcceptedNotifications(s, r) <= Cardinality(RequestsFromTo(s, r))

\* C12: a send to oneself is answered InvalidOperation and creates nothing, and
\* every stored request has a sender different from its recipient.
C12_NoSelfRequest ==
  /\ \A i \in 1..Len(requests) : requests[i].sender # requests[i].recipient
  /\ \A p \in Procs :
       (calls[p].op = "send" /\ calls[p].actor = calls[p].userId) =>
         /\ calls[p].pc = "done"
         /\ Kind(calls[p].res) = "InvalidOperation"
         /\ Alone(p) => Unchanged(p)

\* A send to oneself has been answered while another request is stored.
C12_Witness ==
  \E p \in Procs :
    /\ Alone(p)
    /\ calls[p].op = "send" /\ calls[p].actor = calls[p].userId
    /\ Kind(calls[p].res) = "InvalidOperation"
    /\ Len(requests) > 0


\* C13: no account's connections contains the account's own id.
C13_NoSelfConnection ==
  \A u \in Accounts : u \notin connections[u]

\* An accept has run to its end and accounts are connected.
C13_Witness ==
  /\ Quiescent
  /\ \E u, v \in Accounts : u # v /\ v \in connections[u] /\ u \in connections[v]

\* C14: the effect of accept is atomic: an accept that does not answer success
\* (a 500 after a failed storage write included) leaves the request pending and
\* changes no account's connections and no notification.
C14_AcceptAtomic ==
  \A p \in Procs :
    ( /\ Alone(p)
      /\ calls[p].op = "accept" /\ calls[p].pc = "done"
      /\ Kind(calls[p].res) # "Success" )
    => /\ requests = pre.requests
       /\ connections = pre.connections
       /\ notifications = pre.notifications


\* The collections hold the whole effect of call p's accept.
AcceptCommitted(p) ==
  LET id == calls[p].requestId
      S == calls[p].request.sender
      R == calls[p].actor IN
  /\ requests[id].status = "accepted"
  /\ R \in connections[S] /\ S \in connections[R]
  /\ notifications =
       Append(pre.notifications,
              [recipient |-> S, type |-> "connectionAccepted", relatedUser |-> R])

\* C15 (state part): when accept is about to dispatch the email the success
\* response has been given and the status change, both connection writes and the
\* notification are stored; after the email step, failed or not, the response
\* is still that success and all of it is still stored.
C15_CommittedBeforeEmail ==
  \A p \in Procs :
    (Alone(p) /\ calls[p].op = "accept"
       /\ (calls[p].pc = "accept_email" \/ Kind(calls[p].res) = "Success"))
    => /\ calls[p].res = Json(200, "Connection request accepted")
       /\ AcceptCommitted(p)
       /\ calls[p].pc = "accept_email" => emails = pre.emails

\* C15 (step part): an email is dispatched only by an accept that has already
\* answered success, and the email step never changes the response.
C15_EmailStep ==
  /\ emails' # emails =>
       \E p \in Procs :
         /\ calls[p].op = "accept" /\ calls[p].pc = "accept_email"
         /\ Kind(calls[p].res) = "Success"
         /\ emails' = Append(emails, calls[p].request.sender)
  /\ \A p \in Procs :
       calls[p].pc = "accept_email" => calls'[p].res = calls[p].res

C15_ResponseBeforeEmail ==
  [](C15_CommittedBeforeEmail) /\ [][C15_EmailStep]_vars

\* The email dispatch of a successful accept has failed.
C15_Witness ==
  \E p \in Procs :
    /\ Alone(p)
    /\ calls[p].op = "accept" /\ calls[p].pc = "done"
    /\ Kind(calls[p].res) = "Success"
    /\ emails = pre.emails


\* C16: a send that meets its preconditions succeeds (unless a storage call
\* fails), and a successful send appends exactly one request {sender: actor,
\* recipient: target, status: pending} and changes no other request, no
\* connections, no notification and no email.
C16_SendEffect ==
  \A p \in Procs :
    (Alone(p) /\ calls[p].op = "send" /\ calls[p].pc = "done") =>
      LET actor == calls[p].actor
          target == calls[p].userId IN
      /\ ( /\ actor # target
           /\ target \notin pre.connections[actor]
           /\ PendingBetweenIn(pre.requests, actor, target) = {}
           /\ calls[p].error = "" )
         => Kind(calls[p].res) = "Success"
      /\ Kind(calls[p].res) = "Success" =>
           /\ actor # target
           /\ target \notin pre.connections[actor]
           /\ requests =
                Append(pre.requests,
                       [sender |-> actor, recipient |-> target, status |-> "pending"])
           /\ connections = pre.connections
           /\ notifications = pre.notifications
           /\ emails = pre.emails

\* A send has succeeded with an earlier request in store.
C16_Witness ==
  \E p \in Procs :
    /\ Alone(p)
    /\ calls[p].op = "send" /\ calls[p].pc = "done"
    /\ Kind(calls[p].res) = "Success"
    /\ Len(pre.requests) > 0

\* C17: a successful reject is a reject by the recipient of a pending request;
\* it sets that request's status to rejected and changes no other request, no
\* connections, no notification and no email.
C17_RejectEffect ==
  \A p \in Procs :
    (Alone(p) /\ calls[p].op = "reject" /\ Kind(calls[p].res) = "Success") =>
      /\ Named(p)
      /\ NamedRequest(p).status = "pending"
      /\ NamedRequest(p).recipient = calls[p].actor
      /\ requests = [pre.requests EXCEPT ![calls[p].requestId].status = "rejected"]
      /\ connections = pre.connections
      /\ notifications = pre.notifications
      /\ emails = pre.emails

\* A reject has succeeded while another request is stored.
C17_Witness ==
  \E p \in Procs :
    /\ Alone(p)
    /\ calls[p].op = "reject" /\ calls[p].pc = "done"
    /\ Kind(calls[p].res) = "Success"
    /\ Len(requests) > 1

\* C18: accept of an id under which no request is stored is answered NotFound
\* (unless the lookup itself fails) and changes nothing.
C18_AcceptNotFound ==
  \A p \in Procs :
    (Alone(p) /\ calls[p].op = "accept" /\ calls[p].pc = "done" /\ ~Named(p)) =>
      /\ Unchanged(p)
      /\ calls[p].error = "" =>
           calls[p].res = Json(404, "Connection request not found")

C18_Witness ==
  \E p \in Procs :
    /\ Alone(p)
    /\ calls[p].op = "accept" /\ calls[p].pc = "done" /\ ~Named(p)
    /\ Kind(calls[p].res) = "NotFound"
    /\ Len(requests) > 0

\* C19: reject of an id under which no request is stored is answered NotFound
\* (unless the lookup itself fails) and changes nothing.
C19_RejectNotFound ==
  \A p \in Procs :
    (Alone(p) /\ calls[p].op = "reject" /\ calls[p].pc = "done" /\ ~Named(p)) =>
      /\ Unchanged(p)
      /\ calls[p].error # "storage" => Kind(calls[p].res) = "NotFound"


\* The answers the precedence of the claim allows for status(actor, target):
\* connected, else pending (outgoing), else received with the id of an incoming
\* pending request, else not_connected.
StatusByPrecedence(actor, target) ==
  IF target \in connections[actor]
    THEN {StatusJson("connected", 0)}
    ELSE IF PendingIn(requests, actor, target) # {}
      THEN {StatusJson("pending", 0)}
      ELSE IF PendingIn(requests, target, actor) # {}
        THEN {StatusJson("received", i) : i \in PendingIn(requests, target, actor)}
        ELSE {StatusJson("not_connected", 0)}

\* C20: getConnectionStatus answers by the precedence connected, pending,
\* received (with the request id), not_connected, in every state.
C20_StatusPrecedence ==
  \A p \in Procs :
    ( /\ Alone(p)
      /\ calls[p].op = "status" /\ calls[p].pc = "done" /\ calls[p].error = "" )
    => calls[p].res \in StatusByPrecedence(calls[p].actor, calls[p].userId)

\* A getConnectionStatus call that ran alone and met no storage failure gave one
\* of the answers the stored state allows (the call changes nothing).
StatusCallAnswersNow(p) ==
  (Alone(p) /\ calls[p].op = "status" /\ calls[p].pc = "done" /\ calls[p].error = "")
    => calls[p].res \in StatusNow(calls[p].actor, calls[p].userId)

\* C21: after a successful send from A to B, with no other pending request
\* between them and neither connected to the other, status(B, A) answers received
\* with the id of the new request, status(A, B) answers pending, and an accept of
\* that pending request by B succeeds (unless a storage call fails).
C21_SendThenStatusThenAccept ==
  \A p \in Procs :
    /\ ( /\ Alone(p)
         /\ calls[p].op = "send" /\ calls[p].pc = "done"
         /\ Kind(calls[p].res) = "Success"
         /\ PendingBetweenIn(pre.requests, calls[p].actor, calls[p].userId) = {}
         /\ calls[p].userId \notin pre.connections[calls[p].actor]
         /\ calls[p].actor \notin pre.connections[calls[p].userId] )
       => LET A == calls[p].actor
              B == calls[p].userId
              R == Len(pre.requests) + 1 IN
          /\ StatusNow(B, A) = {StatusJson("received", R)}
          /\ StatusNow(A, B) = {StatusJson("pending", 0)}
          /\ R \in 1..Len(requests)
          /\ requests[R] = [sender |-> A, recipient |-> B, status |-> "pending"]
    /\ StatusCallAnswersNow(p)
    /\ ( /\ Alone(p)
         /\ calls[p].op = "accept" /\ calls[p].pc = "done" /\ calls[p].error = ""
         /\ Named(p)
         /\ NamedRequest(p).status = "pending"
         /\ NamedRequest(p).recipient = calls[p].actor )
       => Kind(calls[p].res) = "Success"

\* The recipient of the only stored request has asked for the status and got
\* received with that request's id.
C21_Witness ==
  \E p \in Procs :
    /\ Alone(p)
    /\ calls[p].op = "status" /\ calls[p].pc = "done"
    /\ Len(requests) = 1
    /\ requests[1].status = "pending"
    /\ requests[1].recipient = calls[p].actor
    /\ requests[1].sender = calls[p].userId
    /\ calls[p].res = StatusJson("received", 1)

\* C22: after the recipient B has rejected A's request, with no other pending
\* request between them and neither connected to the other, status(A, B) and
\* status(B, A) answer not_connected; and a request that is not pending is never
\* what a received answer names.
C22_RejectedNotReported ==
  /\ \A p \in Procs :
       /\ ( /\ Alone(p)
            /\ calls[p].op = "reject" /\ calls[p].pc = "done"
            /\ Kind(calls[p].res) = "Success"
            /\ PendingBetweenIn(pre.requests, NamedRequest(p).sender, calls[p].actor)
                 = {calls[p].requestId}
            /\ calls[p].actor \notin connections[NamedRequest(p).sender]
            /\ NamedRequest(p).sender \notin connections[calls[p].actor] )
          => LET A == NamedRequest(p).sender
                 B == calls[p].actor IN
             /\ StatusNow(A, B) = {StatusJson("not_connected", 0)}
             /\ StatusNow(B, A) = {StatusJson("not_connected", 0)}
       /\ StatusCallAnswersNow(p)
  /\ \A x, y \in Accounts :
       \A r \in StatusNow(x, y) :
         /\ r.status = "received" =>
              /\ r.requestId \in 1..Len(requests)
              /\ requests[r.requestId].status = "pending"
         /\ r.status = "pending" => PendingIn(requests, x, y) # {}

\* The sender of the only stored request, which is rejected, has asked for the
\* status and got not_connected.
C22_Witness ==
  \E p \in Procs :
    /\ Alone(p)
    /\ calls[p].op = "status" /\ calls[p].pc = "done"
    /\ Len(requests) = 1
    /\ requests[1].status = "rejected"
    /\ requests[1].sender = calls[p].actor
    /\ requests[1].recipient = calls[p].userId
    /\ calls[p].res = StatusJson("not_connected", 0)

\* C23: send reports the first precondition that fails, in the order self
\* (InvalidOperation), already connected (Conflict), pending request from actor to
\* target (Conflict); a send to a connected account with such a pending request
\* is answered already connected.  A send that does not succeed creates no request.
C23_SendPreconditionOrder ==
  \A p \in Procs :
    (Alone(p) /\ calls[p].op = "send" /\ calls[p].pc = "done") =>
      LET actor == calls[p].actor
          target == calls[p].userId IN
      /\ IF actor = target
           THEN calls[p].res =
                  Json(400, "You cannot send connection request to yourself")
           ELSE IF target \in pre.connections[actor]
             THEN calls[p].res = Json(400, "You are already connected")
             ELSE (PendingIn(pre.requests, actor, target) # {} /\ calls[p].error = "")
                    => calls[p].res = Json(400, "A connection request already sent")
      /\ Kind(calls[p].res) # "Success" => Unchanged(p)

\* A send to a connected account to which the actor also has a pending request.
C23_Witness ==
  \E p \in Procs :
    /\ Alone(p)
    /\ calls[p].op = "send" /\ calls[p].pc = "done"
    /\ calls[p].userId \in pre.connections[calls[p].actor]
    /\ PendingIn(pre.requests, calls[p].actor, calls[p].userId) # {}
    /\ calls[p].res = Json(400, "You are already connected")

\* C25 (state part): a call of send, accept, reject or status that has ended has
\* been answered, and one in which a storage call failed has been answered with
\* the generic 500.
C25_FailureAnswered ==
  \A p \in Procs :
    /\ (calls[p].op \in {"send", "accept", "reject", "status"} /\ calls[p].pc = "done")
         => Answered(p)
    /\ calls[p].error = "storage" =>
         /\ calls[p].pc = "done"
         /\ calls[p].res = InternalError

\* C25 (step part): a response once given is never followed by another one, and
\* a storage call fails only in a call that has not yet answered.
C25_OneResponse ==
  \A p \in Procs :
    /\ (~Finished(p) /\ Answered(p)) => calls'[p].res = calls[p].res
    /\ (~Finished(p) /\ calls'[p].error = "storage") => ~Answered(p)

C25_StorageFailureIsInternal ==
  [](C25_FailureAnswered) /\ [][C25_OneResponse]_vars

\* An accept has ended with the 500 of a storage failure after its first write.
C25_Witness ==
  \E p \in Procs :
    /\ Alone(p)
    /\ calls[p].op = "accept" /\ calls[p].pc = "done"
    /\ calls[p].error = "storage"
    /\ calls[p].res = InternalError
    /\ requests # pre.requests

\* C24 (state part): while a call of send, reject, status, getConnectionRequests,
\* getUserConnections or updateProfile runs, and when it has ended, every
\* account's connections are what they were when it began.
C24_ConnectionsKept ==
  \A p \in Procs :
    ( /\ Alone(p)
      /\ calls[p].op \in {"send", "reject", "status", "requests", "connections",
                          "update"} )
    => connections = pre.connections

\* C24 (step part): a step that changes some account's connections is a step of
\* an accept or a removeConnection call.
C24_ChangedByAcceptOrRemove ==
  connections' # connections =>
    \E p \in Procs :
      /\ calls[p].op \in {"accept", "remove"}
      /\ ~Finished(p)
      /\ calls'[p] # calls[p]

C24_ConnectionsFrame ==
  [](C24_ConnectionsKept) /\ [][C24_ChangedByAcceptOrRemove]_vars

\* A profile update whose body carried a headline and a connections array has
\* set the headline of an account that has a connection.
C24_Witness ==
  \E p \in Procs :
    /\ Alone(p)
    /\ calls[p].op = "update" /\ calls[p].pc = "done"
    /\ calls[p].body.fields = {"headline", "connections"}
    /\ calls[p].body.connections # connections[calls[p].actor]
    /\ connections[calls[p].actor] # {}
    /\ headlines[calls[p].actor] # pre.headlines[calls[p].actor]
    /\ calls[p].res.code = 200

\* C29: a getPublicProfile call that has ended has sent a response: the account's
\* record when an account has the username, and 404 "User not found" when none has.
C29_ProfileAlwaysAnswered ==
  \A p \in Procs :
    (calls[p].op = "profile" /\ calls[p].pc = "done" /\ calls[p].error = "") =>
      /\ Answered(p)
      /\ IF FindByUsername(calls[p].userId) = {}
           THEN calls[p].res = Json(404, "User not found")
           ELSE /\ calls[p].res.code = 200
                /\ calls[p].res.user.id \in FindByUsername(calls[p].userId)

\* The post the call p names, as it was stored when p began (NoPost if none).
NamedPost(p) ==
  IF calls[p].postId \in 1..Len(pre.posts) /\ ~pre.posts[calls[p].postId].deleted
    THEN pre.posts[calls[p].postId]
    ELSE NoPost

\* The ids a likes array holds.
Range(likes) == {likes[i] : i \in 1..Len(likes)}

\* C26: in createComment and in accept the caller gets the success response
\* exactly when the notification record has been stored, whatever became of the
\* email: with the email failed the response is the same 200 and the record
\* stays; with the record not stored (its save failed) the response is an error.
C26_FanoutLegs ==
  \A p \in Procs :
    /\ ( /\ Alone(p)
         /\ calls[p].op = "comment" /\ calls[p].pc = "done"
         /\ NamedPost(p) # NoPost /\ NamedPost(p).author # calls[p].actor )
       => LET n == [recipient |-> NamedPost(p).author, type |-> "comment",
                    relatedUser |-> calls[p].actor, relatedPost |-> calls[p].postId] IN
          IF calls[p].res.code = 200
            THEN /\ notifications = Append(pre.notifications, n)
                 /\ emails \in {pre.emails, Append(pre.emails, NamedPost(p).author)}
            ELSE /\ calls[p].res = InternalError
                 /\ notifications = pre.notifications
                 /\ emails = pre.emails
    /\ ( /\ Alone(p)
         /\ calls[p].op = "accept" /\ calls[p].pc = "done"
         /\ Named(p) )
       => LET n == [recipient |-> NamedRequest(p).sender, type |-> "connectionAccepted",
                    relatedUser |-> calls[p].actor] IN
          IF calls[p].res.code = 200
            THEN /\ notifications = Append(pre.notifications, n)
                 /\ emails \in {pre.emails, Append(pre.emails, NamedRequest(p).sender)}
            ELSE /\ notifications = pre.notifications
                 /\ emails = pre.emails
                 /\ calls[p].res.code \in {400, 403, 500}
    /\ (calls[p].pc \in {"comment_email", "accept_email"} /\ Alone(p))
         => /\ Len(notifications) = Len(pre.notifications) + 1
            /\ emails = pre.emails

\* An accept whose email failed has answered 200 with its notification stored
\* after that of a comment.
C26_Witness ==
  \E p \in Procs :
    /\ Alone(p)
    /\ calls[p].op = "accept" /\ calls[p].pc = "done"
    /\ calls[p].res.code = 200
    /\ emails = pre.emails
    /\ Len(notifications) = 2
    /\ notifications[1].type = "comment"
    /\ notifications[2].type = "connectionAccepted"

\* C27: a createComment on a stored post (no storage call failing) appends the
\* comment and answers 200; when the commenter is not the author it stores one
\* comment notification {recipient: author, relatedUser: commenter, relatedPost:
\* the post} and the only email that can go out goes to the author; when the
\* commenter is the author it stores no notification and sends no email.
C27_CommentNotifiesAuthor ==
  \A p \in Procs :
    /\ ( /\ Alone(p)
         /\ calls[p].op = "comment" /\ calls[p].pc = "done" /\ calls[p].error = ""
         /\ NamedPost(p) # NoPost )
       => LET id == calls[p].postId
              author == NamedPost(p).author
              n == [recipient |-> author, type |-> "comment",
                    relatedUser |-> calls[p].actor, relatedPost |-> id] IN
          /\ calls[p].res.code = 200
          /\ posts = [pre.posts EXCEPT
                        ![id].comments = Append(pre.posts[id].comments, calls[p].actor)]
          /\ IF author # calls[p].actor
               THEN /\ notifications = Append(pre.notifications, n)
                    /\ emails \in {pre.emails, Append(pre.emails, author)}
               ELSE /\ notifications = pre.notifications
                    /\ emails = pre.emails
    /\ (calls[p].op = "comment" /\ calls[p].pc \in {"comment_notify", "comment_email"})
         => calls[p].post.author # calls[p].actor

\* A comment by another account than the author: notification stored, email sent.
C27_Witness ==
  \E p \in Procs :
    /\ Alone(p)
    /\ calls[p].op = "comment" /\ calls[p].pc = "done"
    /\ calls[p].res.code = 200
    /\ NamedPost(p).author # calls[p].actor
    /\ Len(notifications) = Len(pre.notifications) + 1
    /\ emails = Append(pre.emails, NamedPost(p).author)

\* C28: a successful likePost adds the actor's id to the post's likes when it was
\* not there and removes it when it was, leaves every other id and every other
\* field of the posts as they were, and the second of two consecutive likePost
\* calls of one actor on one post restores the likes the post had before the first.
C28_LikeToggles ==
  \A p \in Procs :
    ( /\ Alone(p)
      /\ calls[p].op = "like" /\ calls[p].pc = "done"
      /\ calls[p].res.code = 200 )
    => LET id == calls[p].postId
           old == Range(NamedPost(p).likes)
           new == Range(posts[id].likes) IN
       /\ NamedPost(p) # NoPost
       /\ new = IF calls[p].actor \in old THEN old \ {calls[p].actor}
                                        ELSE old \cup {calls[p].actor}
       /\ Cardinality(new) = Len(posts[id].likes)
       /\ posts = [pre.posts EXCEPT ![id].likes = posts[id].likes]
       /\ pre.before # <<>> => new = Range(pre.before[id].likes)

\* The second of two consecutive likePost calls of one actor has ended on a post
\* that another account likes.
C28_Witness ==
  \E p \in Procs :
    /\ Alone(p)
    /\ calls[p].op = "like" /\ calls[p].pc = "done"
    /\ calls[p].res.code = 200
    /\ pre.before # <<>>
    /\ Range(posts[calls[p].postId].likes) \ {calls[p].actor} # {}

\* C30: deletePost answers 404 for an id under which no post is stored and 403
\* for a post of another author (unless the lookup fails), both without changing
\* the posts; the posts change only in a call of the post's author, which removes
\* that post and answers 200.
C30_DeleteOnlyByAuthor ==
  \A p \in Procs :
    (Alone(p) /\ calls[p].op = "delete") =>
      LET id == calls[p].postId
          removed == [pre.posts EXCEPT ![id] = DeletedPost] IN
      /\ (calls[p].pc = "done" /\ calls[p].error = "" /\ NamedPost(p) = NoPost)
           => calls[p].res = Json(404, "Post not found")
      /\ ( /\ calls[p].pc = "done" /\ calls[p].error = ""
           /\ NamedPost(p) # NoPost /\ NamedPost(p).author # calls[p].actor )
           => calls[p].res = Json(403, "You are not authorized to delete this post")
      /\ (NamedPost(p) = NoPost \/ NamedPost(p).author # calls[p].actor)
           => posts = pre.posts
      /\ posts # pre.posts =>
           /\ posts = removed
           /\ calls[p].res.code = 200
      /\ calls[p].res.code = 200 =>
           /\ NamedPost(p).author = calls[p].actor
           /\ posts = removed
      /\ posts \in {pre.posts, removed}

\* Another account than the author has tried to delete a post that has a comment.
C30_Witness ==
  \E p \in Procs :
    /\ Alone(p)
    /\ calls[p].op = "delete" /\ calls[p].pc = "done"
    /\ NamedPost(p) # NoPost
    /\ NamedPost(p).author # calls[p].actor
    /\ Len(NamedPost(p).comments) > 0
    /\ calls[p].res.code = 403

\* C32: when an accept and a reject by the recipient overlap on one request, at
\* most one of them answers success, and the request does not end rejected with
\* its sender and recipient in each other's connections and a connectionAccepted
\* notification stored for it.
C32_AcceptRejectExclusive ==
  \A p, q \in Procs :
    ( /\ calls[p].op = "accept" /\ calls[q].op = "reject"
      /\ calls[p].requestId = calls[q].requestId
      /\ calls[p].requestId \in 1..Len(requests)
      /\ calls[p].actor = requests[calls[p].requestId].recipient
      /\ calls[q].actor = calls[p].actor
      /\ calls[p].pc = "done" /\ calls[q].pc = "done" )
    => LET r == requests[calls[p].requestId] IN
       /\ ~(Kind(calls[p].res) = "Success" /\ Kind(calls[q].res) = "Success")
       /\ ~( /\ r.status = "rejected"
             /\ r.recipient \in connections[r.sender]
             /\ r.sender \in connections[r.recipient]
             /\ AcceptedNotifications(r.sender, r.recipient) > 0 )

\* C33: two accounts that are in each other's connections have no pending
\* request between them, in either direction.
C33_ConnectedNotPending ==
  \A x, y \in Accounts :
    (y \in connections[x] /\ x \in connections[y])
      => PendingBetweenIn(requests, x, y) = {}

\* C34: a removeConnection(A, B) that answers success has taken B out of A's
\* connections and A out of B's and changed nothing else (nothing at all when
\* they were not connected); status(A, B) and status(B, A) then do not answer
\* connected; and a later send between accounts that are not connected and have
\* no pending request from the actor to the target succeeds (unless a storage
\* call fails).
C34_RemoveEffect ==
  \A p \in Procs :
    /\ ( /\ Alone(p)
         /\ calls[p].op = "remove" /\ calls[p].pc = "done"
         /\ Kind(calls[p].res) = "Success" )
       => LET A == calls[p].actor
              B == calls[p].userId IN
          /\ connections =
               [u \in Accounts |->
                  IF u = A /\ u = B THEN pre.connections[u] \ {A}
                  ELSE IF u = A THEN pre.connections[u] \ {B}
                  ELSE IF u = B THEN pre.connections[u] \ {A}
                  ELSE pre.connections[u]]
          /\ requests = pre.requests
          /\ notifications = pre.notifications
          /\ emails = pre.emails
          /\ (B \notin pre.connections[A] /\ A \notin pre.connections[B]) => Unchanged(p)
          /\ StatusJson("connected", 0) \notin StatusNow(A, B)
          /\ StatusJson("connected", 0) \notin StatusNow(B, A)
    /\ (calls[p].op = "remove" /\ calls[p].pc = "done" /\ calls[p].error = "")
         => Kind(calls[p].res) = "Success"
    /\ ( /\ Alone(p)
         /\ calls[p].op = "send" /\ calls[p].pc = "done" /\ calls[p].error = ""
         /\ calls[p].actor # calls[p].userId
         /\ calls[p].userId \notin pre.connections[calls[p].actor]
         /\ PendingIn(pre.requests, calls[p].actor, calls[p].userId) = {} )
       => Kind(calls[p].res) = "Success"

\* A removeConnection between two connected accounts has answered success.
C34_Witness ==
  \E p \in Procs :
    /\ Alone(p)
    /\ calls[p].op = "remove" /\ calls[p].pc = "done"
    /\ Kind(calls[p].res) = "Success"
    /\ calls[p].userId \in pre.connections[calls[p].actor]
    /\ calls[p].actor \in pre.connections[calls[p].userId]
    /\ calls[p].userId \notin connections[calls[p].actor]
    /\ calls[p].actor \notin connections[calls[p].userId]

\* C35: accept checks, in this order, that the request exists (NotFound), that
\* the actor is its recipient (Forbidden) and that it is pending (Conflict): an
\* actor who is not the recipient of an accepted or rejected request is answered
\* Forbidden.
C35_AcceptGuardOrder ==
  \A p \in Procs :
    ( /\ Alone(p)
      /\ calls[p].op = "accept" /\ calls[p].pc = "done" /\ calls[p].error = "" )
    => IF ~Named(p)
         THEN Kind(calls[p].res) = "NotFound"
         ELSE IF calls[p].actor # NamedRequest(p).recipient
           THEN calls[p].res = Json(403, "You are not authorized to accept this request")
           ELSE IF NamedRequest(p).status # "pending"
             THEN Kind(calls[p].res) = "Conflict"
             ELSE Kind(calls[p].res) = "Success"

\* An account that is not the recipient has tried to accept a request that is
\* no longer pending.
C35_Witness ==
  \E p \in Procs :
    /\ Alone(p)
    /\ calls[p].op = "accept" /\ calls[p].pc = "done"
    /\ Named(p)
    /\ calls[p].actor # NamedRequest(p).recipient
    /\ NamedRequest(p).status # "pending"
    /\ Kind(calls[p].res) = "Forbidden"

\* C36: getConnectionRequests answers with exactly the stored requests whose
\* recipient is the actor and whose status is pending, each once (so none that is
\* accepted or rejected, and none of which the actor is only the sender or no
\* party), and changes nothing.
C36_ListingIsPendingToActor ==
  \A p \in Procs :
    (Alone(p) /\ calls[p].op = "requests" /\ calls[p].pc = "done") =>
      /\ Unchanged(p)
      /\ calls[p].error = "" =>
           /\ calls[p].res.code = 200
           /\ Range(calls[p].res.list) =
                {i \in 1..Len(requests) :
                   requests[i].recipient = calls[p].actor /\ requests[i].status = "pending"}
           /\ Cardinality(Range(calls[p].res.list)) = Len(calls[p].res.list)

\* The recipient of two requests, one of them accepted, has been answered with
\* the pending one alone.
C36_Witness ==
  \E p \in Procs :
    /\ Alone(p)
    /\ calls[p].op = "requests" /\ calls[p].pc = "done"
    /\ Len(requests) = 2
    /\ requests[1].recipient = calls[p].actor /\ requests[1].status = "accepted"
    /\ requests[2].recipient = calls[p].actor
    /\ calls[p].res.list = <<2>>

\* The usernames and the emails of the accounts created by signup.
AllUsernames ==
  [i \in 1..Len(users) |-> users[i].username]

AllEmails ==
  [i \in 1..Len(users) |-> users[i].email]

\* C31: a signup with a field missing, an email or a username that a stored
\* account has, or a password of fewer than 6 characters is answered 400 (unless
\* a lookup fails) and creates no account; a signup that answers 201 created
\* exactly its account; and no two stored accounts share a username or an email.
C31_SignupValidation ==
  /\ \A p \in Procs :
       (Alone(p) /\ calls[p].op = "signup" /\ calls[p].pc = "done") =>
         LET form == calls[p].form
             invalid ==
               \/ form.name = "" \/ form.username = ""
               \/ form.email = "" \/ form.password = ""
               \/ \E u \in Accounts : EmailOf(u) = form.email \/ UsernameOf(u) = form.username
               \/ \E i \in 1..Len(pre.users) :
                    pre.users[i].email = form.email \/ pre.users[i].username = form.username
               \/ Len(form.password) < 6 IN
         /\ invalid => users = pre.users
         /\ (invalid /\ calls[p].error = "") => calls[p].res.code = 400
         /\ (~invalid /\ calls[p].error = "") => calls[p].res.code = 201
         /\ calls[p].res.code = 201 =>
              /\ ~invalid
              /\ Len(users) = Len(pre.users) + 1
              /\ SubSeq(users, 1, Len(pre.users)) = pre.users
              /\ users[Len(users)].username = form.username
              /\ users[Len(users)].email = form.email
         /\ calls[p].res.code # 201 => users = pre.users
  /\ \A i, j \in 1..Len(users) :
       i # j => /\ AllUsernames[i] # AllUsernames[j]
                /\ AllEmails[i] # AllEmails[j]
  /\ \A i \in 1..Len(users), u \in Accounts :
       /\ AllUsernames[i] # UsernameOf(u)
       /\ AllEmails[i] # EmailOf(u)

\* A signup under the username of an account created by an earlier signup, with
\* another email, has been answered 400.
C31_Witness ==
  \E p \in Procs :
    /\ Alone(p)
    /\ calls[p].op = "signup" /\ calls[p].pc = "done"
    /\ calls[p].res = Json(400, "Username already exists")
    /\ \E i \in 1..Len(users) :
         /\ users[i].username = calls[p].form.username
         /\ users[i].email # calls[p].form.email

====
